---- MODULE Spec2Model ----
(***************************************************************************)
(* Model of src/adb.py: the AdbOCR session.  load() creates two asyncio    *)
(* tasks (OCR-engine initialisation, device connection) and awaits them in *)
(* turn; _connect_device performs a handshake, optionally a scan of the    *)
(* local listening sockets and one retry.  asyncio tasks are cooperative:  *)
(* every action below is the code between two suspension points.           *)
(***************************************************************************)
EXTENDS Integers, Sequences, FiniteSets, TLC

VARIABLES _device, available, ocr_engine, ld, call

vars == <<_device, available, ocr_engine, ld, call>>

-----------------------------------------------------------------------------
(* Bounds of the model and constants of the program *)

\* longest socket enumeration psutil returns in the model
MaxConns == 2

\* longest list of detections the OCR engine returns in the model
MaxDetections == 2

\* psutil filter threshold, adb.py line 118
AdbMinPort == 5555

\* random.randint(60, 120), adb.py line 247
RandLo == 60
RandHi == 120

\* the load invocations that may be in flight on one session
Loads == {1, 2}

Hosts == {"localhost", "10.0.0.2"}
LoadPorts == {5037, 5555}
Languages == {"ch"}

\* outcomes of `await device.connect()`: True, a falsy value, OSError, or an
\* exception that is not an OSError (authentication, protocol, timeout)
HandshakeOutcomes == {"ok", "false", "oserror", "raise"}

\* outcomes of one probe `adb_device.connect(read_timeout_s=0.5)`
ProbeOutcomes == {"accept", "refuse", "raise"}

\* the sockets psutil.net_connections("tcp4") may report
Sockets ==
    { [port |-> 5554, status |-> "LISTEN"],
      [port |-> 5555, status |-> "LISTEN"],
      [port |-> 5556, status |-> "LISTEN"],
      [port |-> 5556, status |-> "ESTABLISHED"] }

SeqsUpTo(S, n) == UNION { [1..k -> S] : k \in 0..n }

-----------------------------------------------------------------------------
(* Values *)

\* Python's None for the _device field
NoDevice == [host |-> "", port |-> 0, owner |-> 0, n |-> 0]

\* AdbDeviceTcpAsync(host=host, port=port, ...): a fresh object; owner and n
\* identify the call of _connect_device that constructed it
NewDevice(host, port, p, n) == [host |-> host, port |-> port, owner |-> p, n |-> n]

NoEngine == ""

NoArgs == [port |-> 0, host |-> "", scan_if_fail |-> FALSE, language |-> ""]

IdleLoad ==
    [ load |-> "idle", t1 |-> "none", t2 |-> "none", args |-> NoArgs,
      hs |-> <<>>, scans |-> <<>> ]

NoCall == [op |-> "none", args |-> <<>>, cmds |-> <<>>, ret |-> [absent |-> TRUE, value |-> <<>>], raised |-> ""]

-----------------------------------------------------------------------------
(* _scan_local_devices, adb.py lines 108-138 *)

\* the filter without its test of the socket's state
IsCandidate_AnyStatus(conn) == conn.port >= AdbMinPort

\* the filter of the list comprehension, line 118
IsCandidate(conn) == conn.port >= AdbMinPort /\ conn.status = "LISTEN"

Connections(conns) == SelectSeq(conns, IsCandidate)

\* the truthiness Python gives the int | None the scan returns (line 97)
Truthy(port) == port # 0

\* a loop that takes a probe that raised for one that accepted
ProbeStep_RaiseAccepts(result) == IF result # "refuse" THEN "return" ELSE "next"

\* what one pass of the for loop does with the result of the probe of
\* candidate i (lines 129-135): "return" leaves the loop with the port,
\* "next" goes on to the following candidate
ProbeStep(result) == IF result = "accept" THEN "return" ELSE "next"

\* the for loop of lines 126-135, from candidate i on; probes is the list of
\* the probes made so far, probe[i] the result of the probe of candidate i
RECURSIVE ProbeLoop(_, _, _, _)
ProbeLoop(cands, probe, i, probes) ==
    IF i > Len(cands)
    THEN [found |-> 0, probes |-> probes]
    ELSE LET made == Append(probes, [port |-> cands[i].port, result |-> probe[i]])
         IN  IF ProbeStep(probe[i]) = "return"
             THEN [found |-> cands[i].port, probes |-> made]
             ELSE ProbeLoop(cands, probe, i + 1, made)

\* the whole scan: denied is psutil.AccessDenied raised by the enumeration,
\* conns what psutil.net_connections("tcp4") returns otherwise
_scan_local_devices(denied, conns, probe) ==
    IF denied
    THEN [denied |-> TRUE, conns |-> <<>>, found |-> 0, probes |-> <<>>]
    ELSE LET r == ProbeLoop(Connections(conns), probe, 1, <<>>)
         IN  [denied |-> FALSE, conns |-> conns, found |-> r.found, probes |-> r.probes]

-----------------------------------------------------------------------------
(* The session *)

\* is_connected, line 154 (as a truth value)
is_connected == _device # NoDevice /\ available

\* a _connect_device without the guard of line 74
AlreadyConnected_Never(dev) == FALSE

\* the guard of line 74
AlreadyConnected(dev) == dev # NoDevice

\* a condition that does not look at the host
ShouldScan_AnyHost(host, scan_if_fail) == scan_if_fail

\* the condition of line 93
ShouldScan(host, scan_if_fail) == host = "localhost" /\ scan_if_fail

\* the truth value of `connection` at line 100, given the outcome of the
\* handshake of the recursive call: _connect_device returns None on every
\* path (lines 75, 85, 103 and the fall through)
RetryConnection(outcome) == FALSE

Set(p, r) == ld' = [ld EXCEPT ![p] = r]

\* a load and the tasks it created are over
Finished(l) == l.load \in {"returned", "raised"} /\ l.t2 \in {"done", "raised"}

\* load, lines 52-55 up to the suspension of `await task1`
LoadStart(p) ==
    /\ ld[p].load = "idle" \/ Finished(ld[p])
    /\ \E port \in LoadPorts, host \in Hosts, scan_if_fail \in BOOLEAN, language \in Languages :
         Set(p, [ load |-> "await1", t1 |-> "ready", t2 |-> "ready",
                  args |-> [port |-> port, host |-> host,
                            scan_if_fail |-> scan_if_fail, language |-> language],
                  hs |-> <<>>, scans |-> <<>> ])
    /\ UNCHANGED <<_device, available, ocr_engine, call>>

\* task1: _init_ocr_engine, line 146; the constructor returns or raises
InitOcrEngine(p) ==
    /\ ld[p].t1 = "ready"
    /\ \/ /\ ocr_engine' = ld[p].args.language
          /\ Set(p, [ld[p] EXCEPT !.t1 = "ok"])
       \/ /\ UNCHANGED ocr_engine
          /\ Set(p, [ld[p] EXCEPT !.t1 = "raised"])
    /\ UNCHANGED <<_device, available, call>>

\* task2: _connect_device, lines 74-81 up to the suspension of the handshake.
\* task1 was created first and has no suspension point, so it ran before.
ConnectBegin(p) ==
    /\ ld[p].t2 = "ready"
    /\ ld[p].t1 # "ready"
    /\ IF AlreadyConnected(_device)
       THEN Set(p, [ld[p] EXCEPT !.t2 = "done"])
       ELSE Set(p, [ld[p] EXCEPT
                      !.t2 = "hs",
                      !.hs = << [ host |-> ld[p].args.host, port |-> ld[p].args.port,
                                  scan_if_fail |-> ld[p].args.scan_if_fail,
                                  outcome |-> "pending" ] >>])
    /\ UNCHANGED <<_device, available, ocr_engine, call>>

\* a recursive call that passes scan_if_fail on
RetryScanIfFail_Kept == TRUE

\* the scan_if_fail argument of the recursive call, line 99
RetryScanIfFail == FALSE

\* the handshake of the innermost call of _connect_device returns or raises:
\* lines 82-99 of that call, the scan included, up to the suspension of the
\* handshake of a recursive call, or else to the end of the task through
\* lines 100-106 of the calling frame.  Attempt k is made by frame k, whose
\* local `device` is NewDevice(host, hs[k].port, p, k).
HandshakeDone(p) ==
    /\ ld[p].t2 = "hs"
    /\ \E outcome \in HandshakeOutcomes :
         LET k    == Len(ld[p].hs)
             me   == ld[p].hs[k]
             hs1  == [ld[p].hs EXCEPT ![k].outcome = outcome]
         IN
         IF outcome = "raise"
         THEN /\ Set(p, [ld[p] EXCEPT !.t2 = "raised", !.hs = hs1])
              /\ UNCHANGED <<_device, available>>
         ELSE IF outcome # "ok" /\ ShouldScan(me.host, me.scan_if_fail)
         THEN /\ \E denied \in BOOLEAN, conns \in SeqsUpTo(Sockets, MaxConns),
                    probe \in [1..MaxConns -> ProbeOutcomes] :
                    LET s == _scan_local_devices(denied, conns, probe)
                    IN  IF Truthy(s.found) /\ ~AlreadyConnected(_device)
                        THEN Set(p, [ld[p] EXCEPT
                                 !.t2 = "hs", !.scans = Append(@, s),
                                 !.hs = Append(hs1, [ host |-> me.host, port |-> s.found,
                                                      scan_if_fail |-> RetryScanIfFail,
                                                      outcome |-> "pending" ])])
                        ELSE Set(p, [ld[p] EXCEPT
                                 !.t2 = "done", !.scans = Append(@, s), !.hs = hs1])
              /\ UNCHANGED <<_device, available>>
         ELSE /\ Set(p, [ld[p] EXCEPT !.t2 = "done", !.hs = hs1])
              /\ IF k > 1 /\ RetryConnection(outcome)
                 THEN /\ _device' = NewDevice(me.host, ld[p].hs[k - 1].port, p, k - 1)
                      /\ available' = FALSE
                 ELSE IF outcome = "ok"
                 THEN /\ _device' = NewDevice(me.host, me.port, p, k)
                      /\ available' = TRUE
                 ELSE UNCHANGED <<_device, available>>
    /\ UNCHANGED <<ocr_engine, call>>

\* load resumes from `await task1` (line 55); `await task2` (line 56) does
\* not suspend when task2 is already over.  task2 was scheduled before the
\* wake-up of load, so its first step has run.
LoadAwaitTask1(p) ==
    /\ ld[p].load = "await1"
    /\ ld[p].t1 \in {"ok", "raised"}
    /\ ld[p].t2 # "ready"
    /\ Set(p, [ld[p] EXCEPT !.load =
                  IF ld[p].t1 = "raised" THEN "raised"
                  ELSE IF ld[p].t2 = "done" THEN "returned"
                  ELSE IF ld[p].t2 = "raised" THEN "raised"
                  ELSE "await2"])
    /\ UNCHANGED <<_device, available, ocr_engine, call>>

\* load resumes from `await task2` (line 56)
LoadAwaitTask2(p) ==
    /\ ld[p].load = "await2"
    /\ ld[p].t2 \in {"done", "raised"}
    /\ Set(p, [ld[p] EXCEPT !.load = IF ld[p].t2 = "raised" THEN "raised" ELSE "returned"])
    /\ UNCHANGED <<_device, available, ocr_engine, call>>

\* the transport of the stored device stops reporting itself available
\* (the `available` property read at line 154)
TransportDrop ==
    /\ _device # NoDevice
    /\ available
    /\ available' = FALSE
    /\ UNCHANGED <<_device, ocr_engine, ld, call>>

Step(p) ==
    \/ LoadStart(p)
    \/ InitOcrEngine(p)
    \/ ConnectBegin(p)
    \/ HandshakeDone(p)
    \/ LoadAwaitTask1(p)
    \/ LoadAwaitTask2(p)

\* __init__, lines 37-39
Init ==
    /\ _device = NoDevice
    /\ available = FALSE
    /\ ocr_engine = NoEngine
    /\ ld = [p \in Loads |-> IdleLoad]
    /\ call = NoCall

\* one caller that awaits each load before the next one
Next == Step(1) \/ TransportDrop

Spec == Init /\ [][Next]_vars

\* load as called in the concurrent specification: each caller calls it
\* once, and the second caller passes scan_if_fail=False
ConcLoadStart(p) ==
    /\ ld[p].load = "idle"
    /\ LoadStart(p)
    /\ p = 2 => ~ld'[p].args.scan_if_fail

\* two callers that call load on the same session without awaiting each other
NextConc ==
    \/ \E p \in Loads :
         \/ ConcLoadStart(p)
         \/ InitOcrEngine(p)
         \/ ConnectBegin(p)
         \/ HandshakeDone(p)
         \/ LoadAwaitTask1(p)
         \/ LoadAwaitTask2(p)
    \/ TransportDrop

SpecConc == Init /\ [][NextConc]_vars

-----------------------------------------------------------------------------
(* Device operations, adb.py lines 156-295.  call records the last call:    *)
(* its arguments, the commands it sent to the device, what it returned      *)
(* (absent is Python's None) and the exception it raised, if any.           *)

Absent == [absent |-> TRUE, value |-> <<>>]
Value(v) == [absent |-> FALSE, value |-> v]

Called(op, args, cmds, ret, raised) ==
    call' = [op |-> op, args |-> args, cmds |-> cmds, ret |-> ret, raised |-> raised]

\* self._device.shell(...) and self._device.exec_out(...): an attribute of
\* None when no device is stored; the transport refuses a command when it is
\* not available
DeviceError == IF _device = NoDevice THEN "AttributeError"
               ELSE IF ~available THEN "AdbConnectionError"
               ELSE ""

\* the gestures the callers make: <<x1, y1, x2, y2>>
Gestures == { <<0, 0, 540, 960>>, <<540, 960, 540, 100>> }

\* outputs of `wm size | awk ...` and `wm density | awk ...`, as characters
ShellOutputs == { <<"1080x1920", "\n">>, <<"320", "\n">> }

\* shell_output.replace("\n", ""), lines 167 and 178
StripNewlines(out) == SelectSeq(out, LAMBDA c : c # "\n")

\* get_screen_size, lines 163-167
get_screen_size ==
    /\ IF ~is_connected
       THEN Called("get_screen_size", <<>>, <<>>, Value(<<0, 0>>), "")
       ELSE \E out \in ShellOutputs :
              Called("get_screen_size", <<>>, <<"wm size">>, Value(StripNewlines(out)), "")
    /\ UNCHANGED <<_device, available, ocr_engine, ld>>

\* get_screen_density, lines 176-178
get_screen_density ==
    /\ IF DeviceError # ""
       THEN Called("get_screen_density", <<>>, <<>>, Absent, DeviceError)
       ELSE \E out \in ShellOutputs :
              Called("get_screen_density", <<>>, <<"wm density">>, Value(StripNewlines(out)), "")
    /\ UNCHANGED <<_device, available, ocr_engine, ld>>

\* the MemTotal line of /proc/meminfo, split at white space; the second
\* token is the number of kB, in decimal digits
MemOutputs == { <<"MemTotal:", <<1, 6, 3, 8, 4>>, "kB">>, <<"MemTotal:", <<2, 0, 4, 7>>, "kB">> }

\* int(...) of a string of decimal digits
RECURSIVE ParseInt(_)
ParseInt(digits) ==
    IF digits = <<>> THEN 0
    ELSE 10 * ParseInt(SubSeq(digits, 1, Len(digits) - 1)) + digits[Len(digits)]

\* get_memory, lines 210-211
get_memory ==
    /\ IF DeviceError # ""
       THEN Called("get_memory", <<>>, <<>>, Absent, DeviceError)
       ELSE \E out \in MemOutputs :
              Called("get_memory", <<>>, <<"cat /proc/meminfo">>,
                     Value(ParseInt(out[2]) \div 1024), "")
    /\ UNCHANGED <<_device, available, ocr_engine, ld>>

\* get_screen, lines 221-223: cv2.imdecode gives an image, or None when the
\* bytes do not decode
get_screen ==
    /\ IF DeviceError # ""
       THEN Called("get_screen", <<>>, <<>>, Absent, DeviceError)
       ELSE \E decoded \in BOOLEAN :
              Called("get_screen", <<>>, <<"screencap -p">>,
                     IF decoded THEN Value("image") ELSE Absent, "")
    /\ UNCHANGED <<_device, available, ocr_engine, ld>>

\* the duration parameter of swipe: <<>> is None, <<d>> the integer d
Durations == { <<>>, <<-5>>, <<0>>, <<1>>, <<90>>, <<500>> }

\* `not duration`, line 247: None and 0 are falsy
NotDuration(duration) == duration = <<>> \/ duration[1] = 0

\* swipe, lines 246-247
swipe ==
    /\ \E g \in Gestures, duration \in Durations, jitter \in RandLo..RandHi :
         LET x1 == g[1]
             y1 == g[2]
             x2 == g[3]
             y2 == g[4]
             args == [x1 |-> x1, y1 |-> y1, x2 |-> x2, y2 |-> y2, duration |-> duration]
             d    == IF NotDuration(duration) THEN jitter ELSE duration[1]
         IN  IF DeviceError # ""
             THEN Called("swipe", args, <<>>, Absent, DeviceError)
             ELSE Called("swipe", args,
                         << [cmd |-> "input swipe", x1 |-> x1, y1 |-> y1,
                             x2 |-> x2, y2 |-> y2, duration |-> d] >>,
                         Absent, "")
    /\ UNCHANGED <<_device, available, ocr_engine, ld>>

\* detections of the OCR engine: [polygon, (text, confidence)], the
\* confidence in hundredths
Detections ==
    { [poly |-> << <<10, 20>>, <<50, 20>>, <<50, 80>>, <<10, 80>> >>, text |-> "a", conf |-> 85],
      [poly |-> << <<0, 0>>, <<30, 0>>, <<30, 10>>, <<0, 10>> >>, text |-> "b", conf |-> 86],
      [poly |-> << <<5, 90>>, <<25, 90>>, <<25, 99>>, <<5, 99>> >>, text |-> "c", conf |-> 84] }

\* what ocr_engine.ocr(screen, cls=False) returns: an empty result, or one
\* list of detections (possibly empty) for the one image
EngineResults == { <<>> } \cup { <<dets>> : dets \in SeqsUpTo(Detections, MaxDetections) }

Confidences == {50, 85}

\* the OcrResult of lines 287-292
OcrResultOf(res) ==
    [ x |-> res.poly[1][1], y |-> res.poly[1][2],
      width |-> res.poly[3][1] - res.poly[1][1],
      height |-> res.poly[3][2] - res.poly[1][2],
      text |-> res.text ]

\* a filter that keeps a detection at the threshold
Confident_AtLeast(res, confidence) == res.conf >= confidence

\* the condition of line 293
Confident(res, confidence) == res.conf > confidence

\* the for loop of lines 286-293, from detection i on
RECURSIVE FilterLoop(_, _, _, _)
FilterLoop(result, confidence, i, ocr_results) ==
    IF i > Len(result) THEN ocr_results
    ELSE FilterLoop(result, confidence, i + 1,
                    IF Confident(result[i], confidence)
                    THEN Append(ocr_results, OcrResultOf(result[i]))
                    ELSE ocr_results)

\* line 295
ReturnResults(ocr_results) == IF ocr_results # <<>> THEN Value(ocr_results) ELSE Absent

\* lines 276-295, given what the engine returned
ScreenText(result, confidence) ==
    IF result = <<>> THEN Absent
    ELSE IF result[1] = <<>> THEN Absent
    ELSE ReturnResults(FilterLoop(result[1], confidence, 1, <<>>))

\* get_screen_text, lines 266-295
get_screen_text ==
    /\ \E cropped \in BOOLEAN, confidence \in Confidences, result \in EngineResults :
         LET args == [detect_area |-> cropped, confidence |-> confidence, result |-> result]
         IN  IF ~is_connected
             THEN Called("get_screen_text", args, <<>>, Absent, "")
             ELSE IF ocr_engine = NoEngine
             THEN Called("get_screen_text", args, <<"screencap -p">>, Absent, "AttributeError")
             ELSE Called("get_screen_text", args, <<"screencap -p">>,
                         ScreenText(result, confidence), "")
    /\ UNCHANGED <<_device, available, ocr_engine, ld>>

\* a session as load leaves it: with or without a device, whose transport
\* is available or not, with or without an OCR engine
InitOps ==
    /\ _device \in {NoDevice, NewDevice("localhost", 5555, 1, 1)}
    /\ available \in BOOLEAN
    /\ _device = NoDevice => ~available
    /\ ocr_engine \in {NoEngine} \cup Languages
    /\ ld = [p \in Loads |-> IdleLoad]
    /\ call = NoCall

NextOps ==
    \/ get_screen_size
    \/ get_screen_density
    \/ get_memory
    \/ get_screen
    \/ swipe
    \/ get_screen_text

SpecOps == InitOps /\ [][NextOps]_vars

-----------------------------------------------------------------------------
(* Properties of load and _connect_device *)

\* attempt i of load p was completed by this step, with a successful handshake
Succeeds(p, i) ==
    /\ i \in DOMAIN ld[p].hs
    /\ i \in DOMAIN ld'[p].hs
    /\ ld[p].hs[i].outcome = "pending"
    /\ ld'[p].hs[i].outcome = "ok"

\* C1: a step in which a handshake made by load succeeds stores the device
\* handle of that connection, and is_connected() is then true as long as the
\* transport is available; and from a state in which a handle is stored, no
\* step of a later load (awaited one after the other, whatever its
\* arguments) starts a handshake or makes a scan, and the stored handle
\* stays the same.
C1_ConnectOnce ==
    [][ /\ \A p \in Loads : \A i \in 1..2 :
             Succeeds(p, i) =>
               /\ _device' = NewDevice(ld[p].hs[i].host, ld[p].hs[i].port, p, i)
               /\ is_connected'
        /\ _device # NoDevice =>
             /\ _device' = _device
             /\ is_connected' = available'
             /\ \A p \in Loads :
                  /\ \A i \in DOMAIN ld'[p].hs : ld'[p].hs[i].outcome # "pending"
                  /\ Len(ld'[p].hs) <= Len(ld[p].hs)
                  /\ Len(ld'[p].scans) <= Len(ld[p].scans)
      ]_vars

\* a load that began with the handle stored has returned, having made no
\* handshake and no scan
C1_Witness ==
    /\ _device # NoDevice
    /\ ld[1].load = "returned"
    /\ ld[1].t2 = "done"
    /\ ld[1].hs = <<>>
    /\ ld[1].scans = <<>>
    /\ ld[1].args.host # _device.host

\* C2: under any interleaving of load invocations, the device handle once
\* set is never cleared and never replaced by a different handle.
C2_HandleNeverReplaced == [][_device # NoDevice => _device' = _device]_vars

\* C3: a load has completed (returned or raised) only when both of its
\* sub-tasks, the OCR-engine initialisation and the connection attempt, are
\* over.
C3_LoadJoinsBothTasks ==
    \A p \in Loads :
      ld[p].load \in {"returned", "raised"} =>
        /\ ld[p].t1 \in {"ok", "raised"}
        /\ ld[p].t2 \in {"done", "raised"}

\* C4: every probe of a scan is made to a port that the enumeration reported
\* as a socket in LISTEN state with port >= 5555, and the port of the retry
\* handshake is one of the probed ports.
C4_ProbesOnlyListeningAdbPorts ==
    \A p \in Loads :
      /\ \A k \in DOMAIN ld[p].scans :
           LET s == ld[p].scans[k]
           IN  \A i \in DOMAIN s.probes :
                 /\ s.probes[i].port >= 5555
                 /\ \E j \in DOMAIN s.conns :
                      /\ s.conns[j].port = s.probes[i].port
                      /\ s.conns[j].status = "LISTEN"
      /\ \A k \in DOMAIN ld[p].hs :
           k >= 2 =>
             /\ k - 1 \in DOMAIN ld[p].scans
             /\ \E i \in DOMAIN ld[p].scans[k - 1].probes :
                  ld[p].scans[k - 1].probes[i].port = ld[p].hs[k].port

\* a scan whose enumeration held a socket below 5555 or not in LISTEN state
\* probed a port, and the retry handshake was made
C4_Witness ==
    /\ Len(ld[1].hs) = 2
    /\ Len(ld[1].scans) = 1
    /\ \E j \in DOMAIN ld[1].scans[1].conns :
         \/ ld[1].scans[1].conns[j].port < 5555
         \/ ld[1].scans[1].conns[j].status # "LISTEN"

\* C8: a load makes at most two handshake attempts and at most one scan; the
\* second handshake is made only after a scan found a port, against that
\* port and with scan_if_fail false; when it fails, the connection attempt
\* is over without another scan or handshake; when it succeeds, the handle
\* of the connection to the found port is stored.
C8_OneRescanOneRetry ==
    \A p \in Loads :
      LET l == ld[p]
      IN  /\ Len(l.hs) <= 2
          /\ Len(l.scans) <= 1
          /\ Len(l.hs) = 2 =>
               /\ l.hs[1].outcome \in {"false", "oserror"}
               /\ Len(l.scans) = 1
               /\ l.scans[1].found # 0
               /\ l.hs[2].port = l.scans[1].found
               /\ l.hs[2].host = l.args.host
               /\ l.hs[2].scan_if_fail = FALSE
               /\ l.hs[2].outcome = "pending" <=> l.t2 = "hs"
               /\ l.hs[2].outcome \in {"false", "oserror"} =>
                    l.t2 = "done" /\ _device = NoDevice
               /\ l.hs[2].outcome = "raise" => l.t2 = "raised" /\ _device = NoDevice
               /\ l.hs[2].outcome = "ok" =>
                    /\ l.t2 = "done"
                    /\ _device = NewDevice(l.args.host, l.scans[1].found, p, 2)
          /\ l.t2 = "hs" => ENABLED HandshakeDone(p)

\* the retry went to another port than the one load was given, and succeeded
C8_Witness ==
    /\ Len(ld[1].hs) = 2
    /\ ld[1].hs[2].outcome = "ok"
    /\ ld[1].hs[2].port # ld[1].args.port
    /\ ld[1].load = "returned"

\* the retry failed and load returned
C8_WitnessRetryFails ==
    /\ Len(ld[1].hs) = 2
    /\ ld[1].hs[2].outcome = "oserror"
    /\ ld[1].load = "returned"

\* C9: when the first handshake fails with an OSError, a scan is made if and
\* only if host is "localhost" and scan_if_fail is true; otherwise the
\* connection attempt is over without an exception, no enumeration and no
\* probe was made, no second handshake was made, no handle is stored and
\* is_connected() is false; load then raises only if the OCR-engine
\* initialisation raised.
C9_ScanOnlyLocalhostAndScanIfFail ==
    \A p \in Loads :
      LET l == ld[p]
      IN  (Len(l.hs) >= 1 /\ l.hs[1].outcome = "oserror") =>
            /\ Len(l.scans) >= 1 <=> (l.args.host = "localhost" /\ l.args.scan_if_fail)
            /\ ~(l.args.host = "localhost" /\ l.args.scan_if_fail) =>
                 /\ l.t2 = "done"
                 /\ l.scans = <<>>
                 /\ Len(l.hs) = 1
                 /\ _device = NoDevice
                 /\ ~is_connected
                 /\ l.load = "raised" => l.t1 = "raised"

\* load returned after a transport failure to a remote host, scan_if_fail
\* being true
C9_Witness ==
    /\ ld[1].load = "returned"
    /\ Len(ld[1].hs) = 1
    /\ ld[1].hs[1].outcome = "oserror"
    /\ ld[1].args.host # "localhost"
    /\ ld[1].args.scan_if_fail

\* the candidates of an enumeration, in its order
ListeningAdbPorts(conns) ==
    SelectSeq(conns, LAMBDA c : c.status = "LISTEN" /\ c.port >= 5555)

\* C10: the probes of a scan are made to the candidates in enumeration
\* order; the scan returns the first candidate whose probe accepts and
\* probes none after it; a probe that refuses or raises is followed by the
\* probe of the next candidate; the scan reports no device when no candidate
\* accepts or when the enumeration is denied, and never raises.
C10_FirstAcceptingCandidate ==
    \A p \in Loads : \A k \in DOMAIN ld[p].scans :
      LET s     == ld[p].scans[k]
          cands == ListeningAdbPorts(s.conns)
          n     == Len(s.probes)
      IN  /\ n <= Len(cands)
          /\ \A i \in 1..n : s.probes[i].port = cands[i].port
          /\ \A i \in 1..(n - 1) : s.probes[i].result # "accept"
          /\ s.found # 0 =>
               /\ n >= 1
               /\ s.probes[n].result = "accept"
               /\ s.probes[n].port = s.found
          /\ s.found = 0 =>
               /\ n = Len(cands)
               /\ \A i \in 1..n : s.probes[i].result # "accept"
          /\ s.denied => s.found = 0 /\ n = 0
          /\ ld[p].t2 # "raised" \/ ld[p].hs[Len(ld[p].hs)].outcome = "raise"

\* the probe of the first candidate raised and the second candidate was
\* returned
C10_Witness ==
    /\ Len(ld[1].scans) = 1
    /\ Len(ld[1].scans[1].probes) = 2
    /\ ld[1].scans[1].probes[1].result = "raise"
    /\ ld[1].scans[1].probes[2].result = "accept"
    /\ ld[1].scans[1].found = ld[1].scans[1].probes[2].port
    /\ ld[1].scans[1].found # ld[1].scans[1].probes[1].port

-----------------------------------------------------------------------------
(* Properties of the device operations *)

\* C5: a swipe without a duration sends a command with a duration in
\* 60..120; a swipe with a duration, 0 included, sends that duration.
C5_SwipeDuration ==
    (call.op = "swipe" /\ call.raised = "") =>
      /\ Len(call.cmds) = 1
      /\ call.args.duration = <<>> => call.cmds[1].duration \in 60..120
      /\ call.args.duration # <<>> => call.cmds[1].duration = call.args.duration[1]

\* the detections of the engine whose confidence exceeds the threshold
Exceeding(dets, confidence) == SelectSeq(dets, LAMBDA d : d.conf > confidence)

\* C6: on a connected session, get_screen_text returns the detections whose
\* confidence is strictly greater than the threshold, in engine order, as
\* OcrResults; and it returns absent, not an empty list, when the engine
\* reports no detection or none exceeds the threshold.
C6_StrictConfidenceFilter ==
    (call.op = "get_screen_text" /\ is_connected /\ call.raised = "") =>
      LET dets == IF call.args.result = <<>> THEN <<>> ELSE call.args.result[1]
          keep == Exceeding(dets, call.args.confidence)
      IN  /\ call.cmds # <<>>
          /\ keep = <<>> => call.ret = Absent
          /\ keep # <<>> =>
               /\ ~call.ret.absent
               /\ Len(call.ret.value) = Len(keep)
               /\ \A i \in 1..Len(keep) :
                    call.ret.value[i] =
                      [ x |-> keep[i].poly[1][1], y |-> keep[i].poly[1][2],
                        width |-> keep[i].poly[3][1] - keep[i].poly[1][1],
                        height |-> keep[i].poly[3][2] - keep[i].poly[1][2],
                        text |-> keep[i].text ]
          /\ call.ret.absent \/ call.ret.value # <<>>

\* at threshold 0.85 the engine reported a detection at 0.85 and then one at
\* 0.86, and only the second was returned
C6_Witness ==
    /\ call.op = "get_screen_text"
    /\ is_connected
    /\ call.raised = ""
    /\ call.args.confidence = 85
    /\ Len(call.args.result) = 1
    /\ Len(call.args.result[1]) = 2
    /\ call.args.result[1][1].conf = 85
    /\ call.args.result[1][2].conf = 86
    /\ ~call.ret.absent
    /\ Len(call.ret.value) = 1
    /\ call.ret.value[1].text = "b"

ReadOps == {"get_screen_size", "get_screen_density", "get_memory", "get_screen", "get_screen_text"}

\* C7: with no device handle stored, every read operation returns without
\* raising and sends no command to the device.
C7_ReadsWithoutDevice ==
    (call.op \in ReadOps /\ _device = NoDevice) =>
      /\ call.raised = ""
      /\ call.cmds = <<>>

====
